---- MODULE Spec2Model ----
(***************************************************************************)
(* Model of bin/setup-kegbot.py, the Kegbot Server setup wizard.           *)
(*                                                                         *)
(* Text values (flag values, typed input, paths) are sequences of          *)
(* components: a path "/h/k/s.py" is <<"/","h","k","s.py">>, "~/d" is      *)
(* <<"~","d">>, a plain word "sqlite" is <<"sqlite">>, and the empty       *)
(* string '' is <<>>.  Python's None is the reserved value None.           *)
(***************************************************************************)
EXTENDS Integers, Sequences, FiniteSets, TLC

VARIABLES FLAGS,      \* the parsed command-line flags (fixed during a run)
          pil,        \* whether the imaging library can be imported
          pc,         \* control point of _MainLoop
          i,          \* index into STEPS or into the command list
          value,      \* step -> self.value
          ctx,        \* the shared context: step -> value
          fs,         \* the file system: [dirs, files]
          outfd,      \* "none", "open", "closed"
          out,        \* fragments written to the settings file
          cmds,       \* commands run so far, with their exit status
          printed,    \* notable lines written to the terminal
          exitCode,   \* the process's exit status once pc = "done"
          exc,        \* the exception that is propagating or was last handled
          passed,     \* steps that completed get, validate and save
          applied,    \* steps whose apply has been called
          rejected,   \* <<step, value>> pairs refused with ValueError
          sawExisting,\* settings paths that existed when validate/apply looked
          attempts    \* number of interactive re-prompts so far

vars == <<FLAGS, pil, pc, i, value, ctx, fs, outfd, out, cmds, printed,
          exitCode, exc, passed, applied, rejected, sawExisting, attempts>>

\* ------------------------------------------------------------------ bounds
MaxAttempts == 2

\* ------------------------------------------------------------- text values
None == <<"None">>
Empty == <<>>

sqlite == <<"sqlite">>
mysql == <<"mysql">>
postgres == <<"postgres">>

\* ------------------------------------------------------------- file system
Home == <<"/", "h">>
Cwd == <<"/", "h", "full">>

InitialFs ==
  [dirs  |-> {<<"/">>, Home, <<"/", "h", "full">>, <<"/", "h", "empty">>},
   files |-> {<<"/", "h", "old.py">>, <<"/", "h", "full", "x">>}]

IsAbs(p) == Len(p) > 0 /\ p[1] = "/"

abspath(p) == IF IsAbs(p) THEN p ELSE Cwd \o p

expanduser(p) == IF Len(p) > 0 /\ p[1] = "~" THEN Home \o Tail(p) ELSE p

join(a, b) == IF IsAbs(b) THEN b ELSE a \o b

dirname(p) == IF Len(p) = 0 THEN p ELSE SubSeq(p, 1, Len(p) - 1)

Prefixes(p) == {SubSeq(p, 1, n) : n \in 1..Len(p)}

exists(f, p) == abspath(p) \in (f.dirs \union f.files)

isdir(f, p) == abspath(p) \in f.dirs

\* os.listdir: the entries directly under p; OSError when p is no directory
listdir(f, p) ==
  {q \in (f.dirs \union f.files) :
      Len(q) = Len(abspath(p)) + 1 /\ SubSeq(q, 1, Len(q) - 1) = abspath(p)}

\* os.makedirs: creates p and its missing ancestors; OSError when p exists or
\* an ancestor is a regular file
makedirs(f, p) ==
  IF abspath(p) \in (f.dirs \union f.files)
       \/ Prefixes(abspath(p)) \cap f.files # {}
  THEN [ok |-> FALSE, fs |-> f]
  ELSE [ok |-> TRUE,
        fs |-> [f EXCEPT !.dirs = f.dirs \union Prefixes(abspath(p))]]

\* open(path, 'w+'): creates or truncates; IOError when path is a directory or
\* its parent is not one
open(f, p) ==
  IF abspath(p) \in f.dirs \/ dirname(abspath(p)) \notin f.dirs
  THEN [ok |-> FALSE, fs |-> f]
  ELSE [ok |-> TRUE, fs |-> [f EXCEPT !.files = f.files \union {abspath(p)}]]

\* ------------------------------------------------------------------- steps
STEPS == <<"RequiredLibraries", "SettingsPath", "KegbotDataRoot",
           "DatabaseChoice", "ConfigureDatabase">>

StepNames == {STEPS[n] : n \in 1..Len(STEPS)}

\* a collect loop that stops one step short
BuildSteps_Short == SubSeq(STEPS, 1, Len(STEPS) - 1)

\* the list build and build_interactive iterate over
BuildSteps == STEPS

\* the list _MainLoop applies and emits
steps == STEPS

FLAG(step) ==
  CASE step = "SettingsPath" -> "settings_file"
    [] step = "KegbotDataRoot" -> "data_root"
    [] step = "DatabaseChoice" -> "db_type"
    [] OTHER -> "None"

CHOICES(step) == IF step = "DatabaseChoice" THEN {sqlite, mysql} ELSE {}

\* ctx[key] = v
ctxSet(c, key, v) ==
  [k \in (DOMAIN c) \union {key} |-> IF k = key THEN v ELSE c[k]]

\* the outcome of a call: the exception it raised ("none" when it returned),
\* the message, and the state it leaves behind
Ok(v, c) == [exc |-> "none", msg |-> "", value |-> v, ctx |-> c]
Raise(e, m, v, c) == [exc |-> e, msg |-> m, value |-> v, ctx |-> c]

\* ------------------------------------------------------- getting a value
\* ConfigurationSetupStep.do_prompt: an empty line means the default
do_prompt(raw, default) == IF raw = Empty THEN default ELSE raw

db_type(c) == c["DatabaseChoice"]

ConfigureDatabase_get_from_flag(c) ==
  IF db_type(c) = sqlite
  THEN FLAGS.sqlite_file
  ELSE <<FLAGS.mysql_user, FLAGS.mysql_password, FLAGS.mysql_database>>

get_from_flag(step, c) ==
  IF step = "ConfigureDatabase" THEN ConfigureDatabase_get_from_flag(c)
  ELSE IF FLAG(step) # "None" THEN FLAGS[FLAG(step)]
  ELSE None

get_default(step, c) == get_from_flag(step, c)

\* raw is the triple of lines the user types; all prompts but the MySQL ones
\* read only the first
ConfigureDatabase_get_from_prompt(c, raw) ==
  IF db_type(c) = sqlite
  THEN join(c["KegbotDataRoot"], do_prompt(raw[1], FLAGS.sqlite_file))
  ELSE <<do_prompt(raw[1], None), raw[2], do_prompt(raw[3], <<"kegbot">>)>>

get_from_prompt(step, c, raw) ==
  IF step = "ConfigureDatabase" THEN ConfigureDatabase_get_from_prompt(c, raw)
  ELSE do_prompt(raw[1], get_default(step, c))

\* step.get(interactive, ctx): the new self.value
get(step, interactive, c, raw, v) ==
  IF step = "RequiredLibraries" THEN v
  ELSE IF interactive THEN get_from_prompt(step, c, raw)
  ELSE get_from_flag(step, c)

\* ------------------------------------------------------------- validation
SetupStep_validate(step, v, c) == Ok(v, ctxSet(c, step, v))

\* validation that forgets the CHOICES test
ConfigurationSetupStep_validate_AnyChoice(step, v, c) ==
  SetupStep_validate(step, v, c)

ConfigurationSetupStep_validate(step, v, c) ==
  IF CHOICES(step) # {} /\ v \notin CHOICES(step)
  THEN Raise("ValueError", "Value must be one of", v, c)
  ELSE SetupStep_validate(step, v, c)

RequiredLibraries_validate(v, c) ==
  IF pil THEN Ok(v, c)
  ELSE Raise("FatalError", "Could not locate Python Imaging Library", v, c)

\* validation that does not look whether the settings file exists
SettingsPath_validate_NoExists(v, c, f) ==
  ConfigurationSetupStep_validate("SettingsPath", expanduser(v), c)

SettingsPath_validate(v, c, f) ==
  LET e == expanduser(v) IN
  IF exists(f, e)
  THEN Raise("ValueError", "Settings file already exists", e, c)
  ELSE ConfigurationSetupStep_validate("SettingsPath", e, c)

\* validation that accepts any directory, empty or not
KegbotDataRoot_validate_NoListdir(v, c, f) ==
  LET e == expanduser(v) IN
  IF exists(f, e) /\ ~isdir(f, e)
  THEN Raise("OSError", "Not a directory", e, c)
  ELSE ConfigurationSetupStep_validate("KegbotDataRoot", e, c)

\* validation that stores the value before it tests it
KegbotDataRoot_validate_StoreFirst(v, c, f) ==
  LET e == expanduser(v)
      c2 == ctxSet(c, "KegbotDataRoot", e) IN
  IF exists(f, e)
  THEN IF ~isdir(f, e)
       THEN Raise("OSError", "Not a directory", e, c2)
       ELSE IF listdir(f, e) # {}
       THEN Raise("ValueError", "Path already exists and is not empty", e, c2)
       ELSE ConfigurationSetupStep_validate("KegbotDataRoot", e, c2)
  ELSE ConfigurationSetupStep_validate("KegbotDataRoot", e, c2)

KegbotDataRoot_validate(v, c, f) ==
  LET e == expanduser(v) IN
  IF exists(f, e)
  THEN IF ~isdir(f, e)
       THEN Raise("OSError", "Not a directory", e, c)
       ELSE IF listdir(f, e) # {}
       THEN Raise("ValueError", "Path already exists and is not empty", e, c)
       ELSE ConfigurationSetupStep_validate("KegbotDataRoot", e, c)
  ELSE ConfigurationSetupStep_validate("KegbotDataRoot", e, c)

\* validation that tests the user name against None instead of ''
ConfigureDatabase_validate_UserNone(v, c, f) ==
  IF db_type(c) = sqlite
  THEN LET e == expanduser(v) IN
       IF exists(f, e)
       THEN Raise("ValueError", "SQLite database file already exists", e, c)
       ELSE ConfigurationSetupStep_validate("ConfigureDatabase", e, c)
  ELSE IF v[1] = None
       THEN Raise("ValueError", "Must give a MySQL username", v, c)
       ELSE IF v[3] = Empty
       THEN Raise("ValueError", "Must give a MySQL database name", v, c)
       ELSE ConfigurationSetupStep_validate("ConfigureDatabase", v, c)

ConfigureDatabase_validate(v, c, f) ==
  IF db_type(c) = sqlite
  THEN LET e == expanduser(v) IN
       IF exists(f, e)
       THEN Raise("ValueError", "SQLite database file already exists", e, c)
       ELSE ConfigurationSetupStep_validate("ConfigureDatabase", e, c)
  ELSE IF v[1] = Empty
       THEN Raise("ValueError", "Must give a MySQL username", v, c)
       ELSE IF v[3] = Empty
       THEN Raise("ValueError", "Must give a MySQL database name", v, c)
       ELSE ConfigurationSetupStep_validate("ConfigureDatabase", v, c)

validate(step, v, c, f) ==
  CASE step = "RequiredLibraries" -> RequiredLibraries_validate(v, c)
    [] step = "SettingsPath" -> SettingsPath_validate(v, c, f)
    [] step = "KegbotDataRoot" -> KegbotDataRoot_validate(v, c, f)
    [] step = "DatabaseChoice" -> ConfigurationSetupStep_validate(step, v, c)
    [] step = "ConfigureDatabase" -> ConfigureDatabase_validate(v, c, f)

\* a save that stores the flag's value instead of self.value
save_Flag(step, v, c) ==
  IF step = "RequiredLibraries" THEN c
  ELSE ctxSet(c, step, get_from_flag(step, c))

\* step.save(ctx): the new context
save(step, v, c) ==
  IF step = "RequiredLibraries" THEN c ELSE ctxSet(c, step, v)

\* ------------------------------------------------------------------ apply
Applied(f) == [exc |-> "none", msg |-> "", fs |-> f]
Fatal(m, f) == [exc |-> "FatalError", msg |-> m, fs |-> f]

SettingsPath_apply(v, f) ==
  IF exists(f, v)
  THEN Fatal("Settings file already exists", f)
  ELSE LET d == dirname(v) IN
       IF d # Empty /\ ~isdir(f, d)
       THEN LET m == makedirs(f, d) IN
            IF m.ok THEN Applied(m.fs)
            ELSE Fatal("Couldn't create settings dir", m.fs)
       ELSE Applied(f)

\* apply that forgets the 'static' directory
KegbotDataRoot_apply_NoStatic(v, f) ==
  LET m1 == IF ~isdir(f, v) THEN makedirs(f, v) ELSE [ok |-> TRUE, fs |-> f]
      m2 == makedirs(m1.fs, join(v, <<"media">>))
  IN IF ~m1.ok THEN Fatal("Could not create directory", m1.fs)
     ELSE IF ~m2.ok THEN Fatal("Could not create directory", m2.fs)
     ELSE Applied(m2.fs)

KegbotDataRoot_apply(v, f) ==
  LET m1 == IF ~isdir(f, v) THEN makedirs(f, v) ELSE [ok |-> TRUE, fs |-> f]
      m2 == makedirs(m1.fs, join(v, <<"media">>))
      m3 == makedirs(m2.fs, join(v, <<"static">>))
  IN IF ~m1.ok THEN Fatal("Could not create directory", m1.fs)
     ELSE IF ~m2.ok THEN Fatal("Could not create directory", m2.fs)
     ELSE IF ~m3.ok THEN Fatal("Could not create directory", m3.fs)
     ELSE Applied(m3.fs)

apply(step, v, f) ==
  CASE step = "SettingsPath" -> SettingsPath_apply(v, f)
    [] step = "KegbotDataRoot" -> KegbotDataRoot_apply(v, f)
    [] OTHER -> Applied(f)

\* -------------------------------------------------------- settings output
SETTINGS_TEMPLATE == [key |-> "SETTINGS_TEMPLATE", val |-> Empty]

\* a fragment whose STATIC_ROOT was copied from MEDIA_ROOT
KegbotDataRoot_add_to_settings_SameDir(v) ==
  <<[key |-> "MEDIA_ROOT", val |-> join(v, <<"media">>)],
    [key |-> "STATIC_ROOT", val |-> join(v, <<"media">>)],
    [key |-> "newline", val |-> Empty]>>

KegbotDataRoot_add_to_settings(v) ==
  <<[key |-> "MEDIA_ROOT", val |-> join(v, <<"media">>)],
    [key |-> "STATIC_ROOT", val |-> join(v, <<"static">>)],
    [key |-> "newline", val |-> Empty]>>

ConfigureDatabase_add_to_settings(v, c) ==
  LET cfg == IF db_type(c) = sqlite
             THEN [ENGINE |-> "django.db.backends.sqlite3", NAME |-> v]
             ELSE [ENGINE |-> "django.db.backends.mysql", NAME |-> v[3],
                   USER |-> v[1], PASSWORD |-> v[2],
                   OPTIONS |-> "SET storage_engine=INNODB"]
  IN <<[key |-> "DATABASES", val |-> cfg]>>

\* step.add_to_settings(ctx, outfd): the fragments it writes
add_to_settings(step, v, c) ==
  CASE step = "KegbotDataRoot" -> KegbotDataRoot_add_to_settings(v)
    [] step = "ConfigureDatabase" -> ConfigureDatabase_add_to_settings(v, c)
    [] OTHER -> <<>>

\* ---------------------------------------------------------------- commands
\* a finish_setup that creates the super user in both modes
Commands_AlwaysSuperuser(interactive) ==
  <<"kegbot-admin.py syncdb --all --noinput -v 0",
    "kegbot-admin.py migrate --all --fake --noinput -v 0",
    "kegbot-admin.py kb_set_defaults --force",
    IF interactive THEN "kegbot-admin.py collectstatic"
    ELSE "kegbot-admin.py collectstatic --noinput",
    "kegbot-admin.py createsuperuser">>

\* the command strings of finish_setup, in program order
Commands(interactive) ==
  <<"kegbot-admin.py syncdb --all --noinput -v 0",
    "kegbot-admin.py migrate --all --fake --noinput -v 0",
    "kegbot-admin.py kb_set_defaults --force">>
  \o (IF interactive
      THEN <<"kegbot-admin.py collectstatic", "kegbot-admin.py createsuperuser">>
      ELSE <<"kegbot-admin.py collectstatic --noinput">>)

\* a runner that ignores the exit status
run_command_Ignore(ret) == "none"

\* run_command: raises ValueError on a non-zero exit status
run_command(ret) == IF ret # 0 THEN "ValueError" ELSE "none"

\* ------------------------------------------------------------------ inputs
SettingsChoices ==
  {<<"~", "k", "s.py">>, <<"/", "h", "old.py">>, <<"~", "d", "media", "s.py">>,
   <<"~", "d">>}
RootChoices ==
  {<<"~", "d">>, <<"/", "h", "full">>, <<"/", "h", "empty">>,
   <<"/", "h", "old.py">>}
DbTypeChoices == {sqlite, mysql, postgres}
UserChoices == {Empty, <<"root">>}
PasswordChoices == {<<"pw">>}
DatabaseChoices == {Empty, <<"kegbot">>}
SqliteChoices == {<<"kegbot.sqlite">>, <<"x">>}

FlagValues ==
  [interactive : BOOLEAN, settings_file : SettingsChoices,
   data_root : RootChoices, db_type : DbTypeChoices,
   mysql_user : UserChoices, mysql_password : PasswordChoices,
   mysql_database : DatabaseChoices, sqlite_file : SqliteChoices]

NoInput == <<Empty, Empty, Empty>>

\* the lines a user may type at the prompts of a step
RawInputs(step, c) ==
  CASE step = "SettingsPath" ->
         {<<r, Empty, Empty>> : r \in {Empty} \union SettingsChoices}
    [] step = "KegbotDataRoot" ->
         {<<r, Empty, Empty>> : r \in {Empty} \union RootChoices}
    [] step = "DatabaseChoice" ->
         {<<r, Empty, Empty>> : r \in {Empty} \union DbTypeChoices}
    [] step = "ConfigureDatabase" ->
         IF db_type(c) = sqlite
         THEN {<<r, Empty, Empty>> : r \in {Empty} \union SqliteChoices}
         ELSE {<<u, p, d>> : u \in UserChoices, p \in PasswordChoices,
                             d \in DatabaseChoices}
    [] OTHER -> {NoInput}

\* ------------------------------------------------------------ the wizard
Init ==
  /\ FLAGS \in FlagValues
  /\ pil \in BOOLEAN
  /\ pc = "get"
  /\ i = 1
  /\ value = [s \in StepNames |-> None]
  /\ ctx = [s \in {} |-> None]
  /\ fs = InitialFs
  /\ outfd = "none"
  /\ out = <<>>
  /\ cmds = <<>>
  /\ printed = {}
  /\ exitCode = -1
  /\ exc = "none"
  /\ passed = {}
  /\ applied = {}
  /\ rejected = {}
  /\ sawExisting = {}
  /\ attempts = 0

\* sys.exit(code) after printing line
Exit(code, e, line) ==
  /\ pc' = "done"
  /\ exitCode' = code
  /\ exc' = e
  /\ printed' = printed \union line

\* an exception nobody catches: the interpreter prints the traceback and the
\* process exits with status 1
Uncaught(e, m) == Exit(1, e, {<<"Traceback", m>>})

\* a non-interactive loop that tries the step again
build_except_Retry(e) ==
  IF e \in {"ValueError", "FatalError"} THEN "retry" ELSE "uncaught"

\* the except clauses of build
build_except(e) ==
  IF e \in {"ValueError", "FatalError"} THEN "exit" ELSE "uncaught"

\* an interactive loop that gives up on the first invalid value
build_interactive_except_Abort(e) ==
  CASE e = "KeyboardInterrupt" -> "quit"
    [] e = "FatalError" -> "exit"
    [] e = "ValueError" -> "exit"
    [] OTHER -> "uncaught"

\* the except clauses of build_interactive
build_interactive_except(e) ==
  CASE e = "KeyboardInterrupt" -> "quit"
    [] e = "FatalError" -> "exit"
    [] e = "ValueError" -> "retry"
    [] OTHER -> "uncaught"

Handler(e) ==
  IF FLAGS.interactive THEN build_interactive_except(e) ELSE build_except(e)

\* step.get(interactive, ctx) inside build / build_interactive
Get ==
  /\ pc = "get"
  /\ \E raw \in (IF FLAGS.interactive THEN RawInputs(BuildSteps[i], ctx)
                 ELSE {NoInput}) :
       value' = [value EXCEPT ![BuildSteps[i]] =
                   get(BuildSteps[i], FLAGS.interactive, ctx, raw, value[BuildSteps[i]])]
  /\ pc' = "validate"
  /\ UNCHANGED <<FLAGS, pil, i, ctx, fs, outfd, out, cmds, printed, exitCode,
                 exc, passed, applied, rejected, sawExisting, attempts>>

\* Ctrl-C while the wizard waits at a prompt
Interrupt ==
  /\ pc = "get"
  /\ FLAGS.interactive
  /\ BuildSteps[i] # "RequiredLibraries"
  /\ Handler("KeyboardInterrupt") = "quit"
  /\ Exit(1, "KeyboardInterrupt", {})
  /\ UNCHANGED <<FLAGS, pil, i, value, ctx, fs, outfd, out, cmds, passed,
                 applied, rejected, sawExisting, attempts>>

\* step.validate(ctx) and the except clause its exception reaches
Validate ==
  /\ pc = "validate"
  /\ LET step == BuildSteps[i]
         r == validate(step, value[step], ctx, fs)
         h == Handler(r.exc)
     IN /\ value' = [value EXCEPT ![step] = r.value]
        /\ ctx' = r.ctx
        /\ sawExisting' =
             IF step = "SettingsPath" /\ exists(fs, expanduser(value[step]))
             THEN sawExisting \union {expanduser(value[step])}
             ELSE sawExisting
        /\ rejected' = IF r.exc = "ValueError"
                       THEN rejected \union {<<step, r.value>>}
                       ELSE rejected
        /\ IF r.exc = "none"
           THEN /\ pc' = "save"
                /\ UNCHANGED <<printed, exitCode, exc, attempts>>
           ELSE IF h = "retry"
           THEN /\ attempts < MaxAttempts
                /\ attempts' = attempts + 1
                /\ pc' = "get"
                /\ exc' = r.exc
                /\ printed' = printed \union {<<"ERROR", r.msg>>}
                /\ UNCHANGED exitCode
           ELSE IF h = "exit"
           THEN /\ Exit(1, r.exc, {<<"ERROR", r.msg>>})
                /\ UNCHANGED attempts
           ELSE /\ Uncaught(r.exc, r.msg)
                /\ UNCHANGED attempts
  /\ UNCHANGED <<FLAGS, pil, i, fs, outfd, out, cmds, passed, applied>>

\* step.save(ctx), then the next step or the end of the collect pass
Save ==
  /\ pc = "save"
  /\ ctx' = save(BuildSteps[i], value[BuildSteps[i]], ctx)
  /\ passed' = passed \union {BuildSteps[i]}
  /\ IF i < Len(BuildSteps)
     THEN pc' = "get" /\ i' = i + 1
     ELSE pc' = "apply" /\ i' = 1
  /\ UNCHANGED <<FLAGS, pil, value, fs, outfd, out, cmds, printed, exitCode,
                 exc, applied, rejected, sawExisting, attempts>>

\* an apply loop that swallows what a step raises
Propagates_Swallowed(e) == FALSE

\* the apply loop of _MainLoop has no try: what step.apply raises leaves it
Propagates(e) == e # "none"

\* step.apply(ctx) in _MainLoop; a FatalError is not caught there
Apply ==
  /\ pc = "apply"
  /\ LET step == steps[i]
         r == apply(step, value[step], fs)
     IN /\ fs' = r.fs
        /\ applied' = applied \union {step}
        /\ sawExisting' =
             IF step = "SettingsPath" /\ exists(fs, value[step])
             THEN sawExisting \union {value[step]}
             ELSE sawExisting
        /\ IF ~Propagates(r.exc)
           THEN /\ IF i < Len(steps)
                   THEN pc' = "apply" /\ i' = i + 1
                   ELSE pc' = "open" /\ i' = 1
                /\ exc' = IF r.exc = "none" THEN exc ELSE r.exc
                /\ UNCHANGED <<printed, exitCode>>
           ELSE /\ Uncaught(r.exc, r.msg)
                /\ UNCHANGED i
  /\ UNCHANGED <<FLAGS, pil, value, ctx, outfd, out, cmds, passed, rejected,
                 attempts>>

\* outfd = open(ctx[SettingsPath], 'w+'); outfd.write(SETTINGS_TEMPLATE)
OpenSettings ==
  /\ pc = "open"
  /\ LET r == open(fs, ctx["SettingsPath"])
     IN IF r.ok
        THEN /\ fs' = r.fs
             /\ outfd' = "open"
             /\ out' = <<SETTINGS_TEMPLATE>>
             /\ pc' = "emit"
             /\ UNCHANGED <<printed, exitCode, exc>>
        ELSE /\ Uncaught("IOError", "Is a directory")
             /\ UNCHANGED <<fs, outfd, out>>
  /\ UNCHANGED <<FLAGS, pil, i, value, ctx, cmds, passed, applied, rejected,
                 sawExisting, attempts>>

\* step.add_to_settings(ctx, outfd); outfd.close() after the last step
Emit ==
  /\ pc = "emit"
  /\ out' = out \o add_to_settings(steps[i], value[steps[i]], ctx)
  /\ IF i < Len(steps)
     THEN /\ i' = i + 1
          /\ UNCHANGED <<pc, outfd>>
     ELSE /\ i' = 1
          /\ pc' = "cmd"
          /\ outfd' = "closed"
  /\ UNCHANGED <<FLAGS, pil, value, ctx, fs, cmds, printed, exitCode, exc,
                 passed, applied, rejected, sawExisting, attempts>>

\* one self.run_command(...) of finish_setup; its ValueError is not caught
RunCommand ==
  /\ pc = "cmd"
  /\ \E ret \in {0, 1} :
       /\ cmds' = Append(cmds, [cmd |-> Commands(FLAGS.interactive)[i],
                                ret |-> ret])
       /\ IF run_command(ret) = "none"
          THEN /\ IF i < Len(Commands(FLAGS.interactive))
                  THEN i' = i + 1 /\ pc' = "cmd"
                  ELSE i' = i /\ pc' = "finish"
               /\ UNCHANGED <<printed, exitCode, exc>>
          ELSE /\ Uncaught(run_command(ret),
                           "Command returned non-zero exit status")
               /\ UNCHANGED i
  /\ UNCHANGED <<FLAGS, pil, value, ctx, fs, outfd, out, passed, applied,
                 rejected, sawExisting, attempts>>

\* the end of finish_setup: 'Done!', then _MainLoop returns
Finish ==
  /\ pc = "finish"
  /\ Exit(0, "none", {<<"Done!", "">>})
  /\ UNCHANGED <<FLAGS, pil, i, value, ctx, fs, outfd, out, cmds, passed,
                 applied, rejected, sawExisting, attempts>>

Next ==
  \/ Get
  \/ Interrupt
  \/ Validate
  \/ Save
  \/ Apply
  \/ OpenSettings
  \/ Emit
  \/ RunCommand
  \/ Finish

Spec == Init /\ [][Next]_vars

\* ------------------------------------------------------------- properties
SecondPass == pc \in {"apply", "open", "emit", "cmd", "finish"}

\* nothing of the second pass has happened
NoSideEffect ==
  /\ applied = {}
  /\ fs = InitialFs
  /\ outfd = "none"
  /\ out = <<>>
  /\ cmds = <<>>

DonePrinted == <<"Done!", "">> \in printed

\* the DATABASES fragments written to the settings file
Databases == {out[n].val : n \in {m \in 1..Len(out) : out[m].key = "DATABASES"}}

\* C1: a non-interactive run whose db_type flag is neither 'sqlite' nor
\* 'mysql' never gets DatabaseChoice past validation, never enters the second
\* pass, has no side effect (no directory, no settings file, no command),
\* and once it has ended its exit code is 1.
C1_BadDbTypeAborts ==
  (~FLAGS.interactive /\ FLAGS.db_type \notin {sqlite, mysql}) =>
    /\ "DatabaseChoice" \notin passed
    /\ "DatabaseChoice" \notin DOMAIN ctx
    /\ ~SecondPass
    /\ NoSideEffect
    /\ (pc = "done" => exitCode = 1)

C1_Witness ==
  /\ ~FLAGS.interactive
  /\ FLAGS.db_type = postgres
  /\ pc = "done"
  /\ exitCode = 1
  /\ i = 4
  /\ exc = "ValueError"
  /\ <<"ERROR", "Value must be one of">> \in printed

\* C2: a settings path that existed when SettingsPath.validate or
\* SettingsPath.apply looked at it was refused by validation, is never stored
\* in the context and is never opened for writing; no file that was there
\* before the run is opened for writing.
C2_ExistingSettingsNeverOpened ==
  /\ \A p \in sawExisting : <<"SettingsPath", p>> \in rejected
  /\ "SettingsPath" \in DOMAIN ctx => ctx["SettingsPath"] \notin sawExisting
  /\ outfd # "none" =>
       /\ ctx["SettingsPath"] \notin sawExisting
       /\ abspath(ctx["SettingsPath"]) \notin InitialFs.files

C2_Witness ==
  /\ outfd = "closed"
  /\ sawExisting # {}
  /\ abspath(ctx["SettingsPath"]) \in fs.files

\* C3: in a non-interactive sqlite run every DATABASES block written has the
\* sqlite3 engine and names the sqlite_file flag located within the resolved
\* data root (what the interactive prompt yields for the same file name).
C3_SqliteNameWithinDataRoot ==
  (~FLAGS.interactive /\ FLAGS.db_type = sqlite) =>
    \A d \in Databases :
      /\ d.ENGINE = "django.db.backends.sqlite3"
      /\ d.NAME = join(ctx["KegbotDataRoot"], FLAGS.sqlite_file)

\* C4: a non-interactive mysql run with an empty mysql_user (or an empty
\* mysql_database) never gets ConfigureDatabase past validation, applies and
\* writes nothing, exits with 1, and when it is ConfigureDatabase that ended
\* the run the error is the missing-username one (the missing-database-name
\* one when only the database name is empty).
C4_MissingMysqlFieldAborts ==
  (/\ ~FLAGS.interactive
   /\ FLAGS.db_type = mysql
   /\ (FLAGS.mysql_user = Empty \/ FLAGS.mysql_database = Empty)) =>
    /\ "ConfigureDatabase" \notin passed
    /\ "ConfigureDatabase" \notin DOMAIN ctx
    /\ ~SecondPass
    /\ NoSideEffect
    /\ (pc = "done" => exitCode = 1)
    /\ (pc = "done" /\ i = 5) =>
         /\ exc = "ValueError"
         /\ printed = {<<"ERROR", IF FLAGS.mysql_user = Empty
                                  THEN "Must give a MySQL username"
                                  ELSE "Must give a MySQL database name">>}

C4_Witness ==
  /\ ~FLAGS.interactive
  /\ FLAGS.db_type = mysql
  /\ FLAGS.mysql_user = Empty
  /\ pc = "done"
  /\ i = 5
  /\ exitCode = 1
  /\ <<"ERROR", "Must give a MySQL username">> \in printed

\* C5: whenever the wizard is about to open or has opened the settings file,
\* and in particular after a successful run, the data root and its 'media'
\* and 'static' subdirectories exist as directories.
C5_MediaStaticExist ==
  (pc \in {"open", "emit", "cmd", "finish"} \/ outfd # "none" \/ DonePrinted) =>
    /\ isdir(fs, ctx["KegbotDataRoot"])
    /\ isdir(fs, join(ctx["KegbotDataRoot"], <<"media">>))
    /\ isdir(fs, join(ctx["KegbotDataRoot"], <<"static">>))

C5_Witness ==
  /\ pc = "done"
  /\ exitCode = 0
  /\ DonePrinted
  /\ isdir(fs, join(ctx["KegbotDataRoot"], <<"static">>))

\* the data roots validation refused
RejectedRoots ==
  {r[2] : r \in {x \in rejected : x[1] = "KegbotDataRoot"}}

NonEmptyDir(f, p) == isdir(f, p) /\ listdir(f, p) # {}

C6_State ==
  /\ \A p \in RejectedRoots : NonEmptyDir(fs, p)
  /\ "KegbotDataRoot" \in DOMAIN ctx =>
       /\ ctx["KegbotDataRoot"] \notin RejectedRoots
       /\ ~NonEmptyDir(InitialFs, ctx["KegbotDataRoot"])
  /\ "KegbotDataRoot" \in applied =>
       value["KegbotDataRoot"] \notin RejectedRoots
  /\ (~FLAGS.interactive /\ RejectedRoots # {}) =>
       (pc = "done" /\ exitCode = 1 /\ NoSideEffect)

C6_Step ==
  (pc = "validate" /\ STEPS[i] = "KegbotDataRoot") =>
    LET e == expanduser(value["KegbotDataRoot"]) IN
    IF NonEmptyDir(fs, e)
    THEN /\ ctx' = ctx
         /\ fs' = fs
         /\ <<"KegbotDataRoot", e>> \in rejected'
         /\ <<"ERROR", "Path already exists and is not empty">> \in printed'
         /\ IF FLAGS.interactive
            THEN pc' = "get" /\ i' = i /\ exitCode' = exitCode
            ELSE pc' = "done" /\ exitCode' = 1
    ELSE IF ~exists(fs, e) \/ (isdir(fs, e) /\ listdir(fs, e) = {})
    THEN pc' = "save" /\ ctx'["KegbotDataRoot"] = e
    ELSE TRUE

\* C6: validating a data root that exists and is not empty raises the
\* invalid-value error: the context and the file system are left as they
\* were, a non-interactive run exits with 1 and an interactive run prompts
\* for the step again; a refused root is never stored in the context and
\* KegbotDataRoot.apply never runs on it; a root that does not exist or is an
\* empty directory passes and is stored.
C6_NonEmptyDataRootRefused == []C6_State /\ [][C6_Step]_vars

C6_Witness ==
  /\ FLAGS.interactive
  /\ RejectedRoots # {}
  /\ "KegbotDataRoot" \in applied
  /\ isdir(fs, join(value["KegbotDataRoot"], <<"media">>))

AllZero == \A n \in 1..Len(cmds) : cmds[n].ret = 0

HasLine(kind) == \E l \in printed : l[1] = kind /\ l[2] # ""

\* C7: a run that has ended has exit code 0 exactly when it printed 'Done!'
\* after all steps were validated and applied, the settings file closed and
\* every command returned 0; a run ended by a validation failure, a
\* FatalError (missing imaging library, apply), a file-system error or a
\* non-zero command status has exit code 1 and printed an error message
\* (the ERROR line of the collect pass, the traceback otherwise).
C7_ExitCodes ==
  /\ pc # "done" <=> exitCode = -1
  /\ pc = "done" =>
       /\ exitCode \in {0, 1}
       /\ exitCode = 0 <=> DonePrinted
       /\ exitCode = 0 =>
            /\ exc = "none"
            /\ passed = StepNames
            /\ applied = StepNames
            /\ outfd = "closed"
            /\ Len(cmds) = Len(Commands(FLAGS.interactive))
            /\ AllZero
       /\ ~AllZero => exitCode = 1
       /\ ~pil => exitCode = 1
       /\ exc # "none" => exitCode = 1
       /\ (exc \in {"ValueError", "FatalError"} /\ passed # StepNames) =>
            HasLine("ERROR")
       /\ (\/ exc \in {"OSError", "IOError"}
           \/ (exc \in {"ValueError", "FatalError"} /\ passed = StepNames)) =>
            HasLine("Traceback")

C7_Witness ==
  /\ pc = "done"
  /\ exitCode = 1
  /\ Len(cmds) = 4
  /\ cmds[4].ret = 1
  /\ HasLine("Traceback")

\* C8: commands run one at a time in program order, and a command that
\* returned non-zero is the last one run: the run has ended with exit code 1
\* and 'Done!' was not printed.
C8_NonZeroAbortsSequence ==
  /\ Len(cmds) <= Len(Commands(FLAGS.interactive))
  /\ \A n \in 1..Len(cmds) :
       /\ cmds[n].cmd = Commands(FLAGS.interactive)[n]
       /\ cmds[n].ret # 0 =>
            /\ n = Len(cmds)
            /\ pc = "done"
            /\ exitCode = 1
            /\ ~DonePrinted

C8_Witness ==
  /\ pc = "done"
  /\ Len(cmds) = 2
  /\ cmds[2].ret = 1
  /\ cmds[1].ret = 0

\* C9: an apply call, a created directory, an opened settings file or a run
\* command implies that all five steps completed get, validate and save and
\* that every configuration step's value is in the context.
C9_NoEffectBeforeAllValidated ==
  (SecondPass \/ ~NoSideEffect) =>
    /\ passed = StepNames
    /\ StepNames \ {"RequiredLibraries"} \subseteq DOMAIN ctx
    /\ pc \notin {"get", "validate", "save"}

C9_Witness ==
  /\ pc = "apply"
  /\ applied # {}
  /\ fs # InitialFs
  /\ passed = StepNames

C10_State ==
  FLAGS.interactive =>
    /\ pc \in {"get", "validate", "save"} =>
         /\ passed = {STEPS[n] : n \in 1..(i - 1)}
         /\ \A n \in 2..(i - 1) :
              /\ STEPS[n] \in DOMAIN ctx
              /\ ctx[STEPS[n]] = value[STEPS[n]]
    /\ (pc = "done" /\ passed # StepNames) =>
         /\ exc \in {"KeyboardInterrupt", "FatalError", "OSError"}
         /\ exitCode = 1

C10_Step ==
  (/\ FLAGS.interactive
   /\ pc = "validate"
   /\ validate(STEPS[i], value[STEPS[i]], ctx, fs).exc = "ValueError") =>
    /\ pc' = "get"
    /\ i' = i
    /\ passed' = passed
    /\ ctx' = ctx
    /\ exitCode' = exitCode
    /\ attempts' = attempts + 1

ConfigSteps == StepNames \ {"RequiredLibraries"}

\* C11: with db type 'mysql', the ConfigureDatabase value stored in the
\* context never has a user name that was left empty: neither '' nor the
\* None that do_prompt returns for an empty line at the 'MySQL user' prompt.
C11_EmptyMysqlUserNeverPersisted ==
  ("ConfigureDatabase" \in DOMAIN ctx /\ db_type(ctx) = mysql) =>
    ctx["ConfigureDatabase"][1] \notin {Empty, None}

\* C12: a non-interactive run never tries a step again, and when it ends in
\* the collect pass it ends with exit code 1 at the failing step: exactly the
\* steps before it have passed and have their values in the context, no
\* later step has been resolved, and nothing of the second pass has happened.
C12_NonInteractiveAbortsOnFirstError ==
  ~FLAGS.interactive =>
    /\ attempts = 0
    /\ (pc = "done" /\ passed # StepNames) =>
         /\ exitCode = 1
         /\ exc \in {"ValueError", "FatalError", "OSError"}
         /\ passed = {STEPS[n] : n \in 1..(i - 1)}
         /\ DOMAIN ctx = passed \ {"RequiredLibraries"}
         /\ \A n \in (i + 1)..Len(STEPS) : value[STEPS[n]] = None
         /\ NoSideEffect

C12_Witness ==
  /\ ~FLAGS.interactive
  /\ pc = "done"
  /\ i = 3
  /\ exc = "ValueError"
  /\ DOMAIN ctx = {"SettingsPath"}
  /\ value["KegbotDataRoot"] # None

\* a FatalError raised by an apply step
ApplyFailed == exc = "FatalError" /\ passed = StepNames

C13_State ==
  ApplyFailed =>
    /\ pc = "done"
    /\ exitCode = 1
    /\ applied = {STEPS[n] : n \in 1..i}
    /\ outfd = "none"
    /\ out = <<>>
    /\ abspath(ctx["SettingsPath"]) \notin fs.files
    /\ cmds = <<>>
    /\ "SettingsPath" \in applied /\ i > 2 =>
         isdir(fs, dirname(value["SettingsPath"]))

C13_Step ==
  /\ fs.dirs \subseteq fs'.dirs
  /\ fs.files \subseteq fs'.files
  /\ ApplyFailed => UNCHANGED <<fs, applied, outfd, out, cmds>>

\* C13: a FatalError raised by a step's apply ends the run at once with exit
\* code 1: the steps after it are not applied, the settings file is neither
\* opened nor created, no command is run; no directory is ever removed, so
\* what earlier apply steps created stays.
C13_ApplyFatalAborts == []C13_State /\ [][C13_Step]_vars

C13_Witness ==
  /\ ApplyFailed
  /\ pc = "done"
  /\ i = 3
  /\ fs.dirs # InitialFs.dirs
  /\ isdir(fs, join(value["KegbotDataRoot"], <<"media">>))
  /\ ~isdir(fs, join(value["KegbotDataRoot"], <<"static">>))

\* the command finish_setup runs in place n
ExpectedCommand(n) ==
  CASE n = 1 -> "kegbot-admin.py syncdb --all --noinput -v 0"
    [] n = 2 -> "kegbot-admin.py migrate --all --fake --noinput -v 0"
    [] n = 3 -> "kegbot-admin.py kb_set_defaults --force"
    [] n = 4 -> IF FLAGS.interactive THEN "kegbot-admin.py collectstatic"
                ELSE "kegbot-admin.py collectstatic --noinput"
    [] OTHER -> "kegbot-admin.py createsuperuser"

\* C14: a command has run only when the settings file has been written in
\* full and closed; the n-th command run is the n-th of syncdb, migrate,
\* kb_set_defaults, collectstatic, createsuperuser; collectstatic carries
\* --noinput exactly in non-interactive mode; createsuperuser is run only in
\* interactive mode and only after the four commands before it returned 0.
C14_CommandsAfterSettingsInOrder ==
  /\ (cmds # <<>> \/ pc \in {"cmd", "finish"}) =>
       /\ outfd = "closed"
       /\ Len(out) = 5
       /\ out[5].key = "DATABASES"
  /\ Len(cmds) <= 5
  /\ \A n \in 1..Len(cmds) :
       /\ cmds[n].cmd = ExpectedCommand(n)
       /\ \A m \in 1..(n - 1) : cmds[m].ret = 0
  /\ Len(cmds) = 5 => FLAGS.interactive

C14_Witness ==
  /\ FLAGS.interactive
  /\ Len(cmds) = 5
  /\ cmds[5].cmd = "kegbot-admin.py createsuperuser"
  /\ pc = "done"
  /\ exitCode = 0

\* the values validation refused for a step
RejectedFor(step) == {r[2] : r \in {x \in rejected : x[1] = step}}

C15_State ==
  /\ DOMAIN ctx \subseteq ConfigSteps
  /\ \A k \in DOMAIN ctx :
       /\ k \in passed \/ (pc = "save" /\ STEPS[i] = k)
       /\ ctx[k] \notin RejectedFor(k)
       /\ ctx[k] = value[k]

C15_Step ==
  /\ DOMAIN ctx \subseteq DOMAIN ctx'
  /\ \A k \in DOMAIN ctx : ctx'[k] = ctx[k]

\* C15: a key present in the context stays present with its value in every
\* later state; a step's key is present only once that step's validation has
\* returned without error, and the value under it is never one that
\* validation refused.
C15_ContextMonotonic == []C15_State /\ [][C15_Step]_vars

C15_Witness ==
  /\ FLAGS.interactive
  /\ DOMAIN ctx = ConfigSteps
  /\ RejectedFor("KegbotDataRoot") # {}
  /\ RejectedFor("SettingsPath") # {}

OutKeys == [n \in 1..Len(out) |-> out[n].key]

SettingsLayout ==
  <<"SETTINGS_TEMPLATE", "MEDIA_ROOT", "STATIC_ROOT", "newline", "DATABASES">>

\* C16: what has been written to the settings file is always a prefix of:
\* the template header, MEDIA_ROOT = <data root>/media, STATIC_ROOT =
\* <data root>/static (and the blank line), DATABASES; each once, and the
\* whole of it once the file is closed; nothing is written before apply has
\* been called, without error, for every step.
C16_SettingsLayout ==
  /\ Len(out) <= Len(SettingsLayout)
  /\ OutKeys = SubSeq(SettingsLayout, 1, Len(out))
  /\ Len(out) >= 2 => out[2].val = join(ctx["KegbotDataRoot"], <<"media">>)
  /\ Len(out) >= 3 => out[3].val = join(ctx["KegbotDataRoot"], <<"static">>)
  /\ outfd = "closed" => Len(out) = Len(SettingsLayout)
  /\ out # <<>> =>
       /\ outfd # "none"
       /\ applied = StepNames
       /\ exc # "FatalError"

C16_Witness ==
  /\ outfd = "closed"
  /\ Len(out) = 5
  /\ out[1] = SETTINGS_TEMPLATE
  /\ FLAGS.db_type = mysql

\* C17: whenever ConfigureDatabase is being resolved, validated, saved or
\* emitted, the context holds a DatabaseChoice that is 'sqlite' or 'mysql'
\* and a KegbotDataRoot; the value resolved has the shape of that choice and
\* the DATABASES block written has its engine.
C17_DatabaseChoiceInContext ==
  /\ (\/ (pc \in {"get", "validate", "save"} /\ STEPS[i] = "ConfigureDatabase")
      \/ (pc = "emit" /\ STEPS[i] = "ConfigureDatabase")
      \/ Databases # {}) =>
       /\ "DatabaseChoice" \in DOMAIN ctx
       /\ ctx["DatabaseChoice"] \in {sqlite, mysql}
       /\ "KegbotDataRoot" \in DOMAIN ctx
  /\ (pc \in {"validate", "save"} /\ STEPS[i] = "ConfigureDatabase"
        /\ ctx["DatabaseChoice"] = mysql) =>
       /\ Len(value["ConfigureDatabase"]) = 3
       /\ value["ConfigureDatabase"][2] \in PasswordChoices
  /\ \A d \in Databases :
       d.ENGINE = (IF ctx["DatabaseChoice"] = sqlite
                   THEN "django.db.backends.sqlite3"
                   ELSE "django.db.backends.mysql")

C17_Witness ==
  /\ FLAGS.interactive
  /\ attempts > 0
  /\ pc = "emit"
  /\ i = 5
  /\ ctx["DatabaseChoice"] = mysql
  /\ FLAGS.db_type = postgres

\* C18: from the start of the second pass on, every configuration step's
\* own value is the value stored under it in the context, which validation
\* did not refuse; the settings file is created at that SettingsPath value
\* and at no other path, and the fragments written carry those values.
C18_StepValueIsValidatedValue ==
  passed = StepNames =>
    /\ \A s \in ConfigSteps :
         /\ s \in DOMAIN ctx
         /\ value[s] = ctx[s]
         /\ value[s] \notin RejectedFor(s)
    /\ fs.files \subseteq InitialFs.files \union {abspath(value["SettingsPath"])}
    /\ outfd # "none" => abspath(value["SettingsPath"]) \in fs.files
    /\ Len(out) >= 2 =>
         out[2].val = join(value["KegbotDataRoot"], <<"media">>)

C18_Witness ==
  /\ FLAGS.interactive
  /\ outfd = "closed"
  /\ RejectedFor("SettingsPath") # {}
  /\ value["SettingsPath"] # FLAGS.settings_file
  /\ abspath(value["SettingsPath"]) \in fs.files

====
